---- MODULE Spec2Model ----
(***************************************************************************)
(* State-machine model of curvature/tutorial.ipynb: the notebook's code    *)
(* cells executed top to bottom, one action per statement.  Calls into     *)
(* torch and the curvature library are opaque: a forward pass is a fixed   *)
(* deterministic map of (weights, batch), an optimizer step or a posterior *)
(* sample picks any weight value, an estimator records which updates it    *)
(* received.  Any library call may raise; nothing in the notebook catches. *)
(***************************************************************************)
EXTENDS Integers, Sequences, FiniteSets, Bags, TLC

\* ---- bounds ----
NumTrainBatches == 2        \* len(train_loader)
NumTestBatches == 2         \* len(test_loader)
MaxWeight == 3              \* weight configurations are 1..MaxWeight
MaxSamples == 10            \* the notebook's `samples` ranges over 1..MaxSamples

\* ---- program constants ----
Epochs == 3
DiagSamples == 10
EfbSamples == 10
Rank == 100

Weights == 1..MaxWeight
TrainBatches == 1..NumTrainBatches
TestBatches == 1..NumTestBatches

NoErr == "none"

VARIABLES
  pc,               \* the statement about to execute
  raised,           \* NoErr, or the statement whose library call raised
  weights,          \* model.state_dict()
  mode,             \* "train" / "eval" (model.train(), model.eval())
  epoch,            \* epochs completed inside train()
  images,           \* the batch the current train_loader iteration yielded
  labels,           \* where the global `labels` comes from: "data" / "model"
  sample,           \* iterations started of the current `for sample in range`
  logits,           \* <<weights, batch>> the logits were computed from
  dist,             \* Categorical(logits=logits)
  loss,             \* criterion(logits, labels)
  grad,             \* the loss whose gradient the parameters' .grad holds
  diag, kfac, efb,  \* the estimators' state
  factors, lambdas, diags,
  inf,
  inv_factors,
  posterior_mean,
  mean_predictions, \* exact rational tensor [num, den]
  samples,
  predictions,
  sgd_predictions,
  caller,           \* who called eval(): "sgd" / "mc"
  evImages, evLogits, evTargets,   \* eval()'s locals
  diagDraws,        \* history: dist.sample() calls of the DIAG pass, per batch
  evalLog,          \* history: bag of the predictions eval() returned to the MC loop
  sampledFrom,      \* history: weights seen at each sample_and_replace_weights call
  preLoopWeights    \* history: weights when the MC cell started

ctlVars == <<pc, raised>>
modelVars == <<weights, mode>>
loopVars == <<epoch, images, labels, sample>>
gradVars == <<logits, dist, loss, grad>>
estVars == <<diag, kfac, efb, factors, lambdas, diags, inf, inv_factors>>
mcVars == <<posterior_mean, mean_predictions, samples, predictions, sgd_predictions>>
evalVars == <<caller, evImages, evLogits, evTargets>>
histVars == <<diagDraws, evalLog, sampledFrom, preLoopWeights>>
vars == <<ctlVars, modelVars, loopVars, gradVars, estVars, mcVars, evalVars, histVars>>

\* ---- opaque library functions ----
RECURSIVE Pow2(_)
Pow2(n) == IF n = 0 THEN 1 ELSE 2 * Pow2(n - 1)

\* model(images): a deterministic function of the weights and the batch.
Forward(w, x) == w * x

\* softmax over the class dimension, as the fixed-point probability of the
\* first class against a reference class of logit 0.
Softmax(zs) == [i \in 1..Len(zs) |-> (100 * Pow2(zs[i])) \div (Pow2(zs[i]) + 1)]

ZeroCount == [b \in TrainBatches |-> 0]
NoLogits == <<0, 0>>
NoLoss == [logits |-> NoLogits, labels |-> "none"]
NoTensor == [i \in TestBatches |-> 0]

\* An estimator: built by its constructor, upd[b] update calls made while batch
\* b was current, srcs the label sources of the gradients it was updated with.
NoEstimator == [built |-> FALSE, upd |-> ZeroCount, srcs |-> {}]
NewEstimator == [built |-> TRUE, upd |-> ZeroCount, srcs |-> {}]
Update(est, b, g) == [est EXCEPT !.upd[b] = @ + 1, !.srcs = @ \cup {g.labels}]

NoInf == [built |-> FALSE, accumulated |-> FALSE, rank |-> 0,
          factors |-> ZeroCount, lambdas |-> ZeroCount, diags |-> ZeroCount]
NoInv == [ready |-> FALSE, state |-> NoInf]

\* mean_predictions = 0; the scalar broadcasts on the first +=.
ZeroMean == [num |-> NoTensor, den |-> 1]
\* mean_predictions += predictions
AddPredictions(m, p) == [num |-> [i \in TestBatches |-> m.num[i] + p[i] * m.den], den |-> m.den]
\* mean_predictions /= samples
DivideBy(m, n) == [num |-> m.num, den |-> m.den * n]

Init ==
  /\ pc = "train_cell"
  /\ raised = NoErr
  /\ weights \in Weights
  /\ mode = "train"
  /\ epoch = 0
  /\ images = 0
  /\ labels = "none"
  /\ sample = 0
  /\ logits = NoLogits
  /\ dist = NoLogits
  /\ loss = NoLoss
  /\ grad = NoLoss
  /\ diag = NoEstimator
  /\ kfac = NoEstimator
  /\ efb = NoEstimator
  /\ factors = ZeroCount
  /\ lambdas = ZeroCount
  /\ diags = ZeroCount
  /\ inf = NoInf
  /\ inv_factors = NoInv
  /\ posterior_mean = 0
  /\ mean_predictions = ZeroMean
  /\ samples = 0
  /\ predictions = NoTensor
  /\ sgd_predictions = NoTensor
  /\ caller = "none"
  /\ evImages = 0
  /\ evLogits = <<>>
  /\ evTargets = <<>>
  /\ diagDraws = ZeroCount
  /\ evalLog = EmptyBag
  /\ sampledFrom = {}
  /\ preLoopWeights = 0

\* ---- the training cell: train(model, train_loader, criterion, optimizer, epochs=3) ----
TrainBegin ==
  /\ pc = "train_cell"
  /\ mode' = "train"
  /\ epoch' = 0
  /\ images' = 0
  /\ pc' = "train_for"
  /\ UNCHANGED <<raised, weights, labels, sample, gradVars, estVars, mcVars, evalVars, histVars>>

TrainFor ==
  /\ pc = "train_for"
  /\ IF images < NumTrainBatches
       THEN /\ images' = images + 1
            /\ labels' = "data"
            /\ pc' = "train_forward"
            /\ epoch' = epoch
       ELSE IF epoch + 1 < Epochs
         THEN /\ epoch' = epoch + 1
              /\ images' = 0
              /\ UNCHANGED <<labels, pc>>
         ELSE /\ epoch' = epoch + 1
              /\ pc' = "eval_cell"
              /\ UNCHANGED <<images, labels>>
  /\ UNCHANGED <<raised, modelVars, sample, gradVars, estVars, mcVars, evalVars, histVars>>

TrainForward ==
  /\ pc = "train_forward"
  /\ logits' = <<weights, images>>
  /\ pc' = "train_loss"
  /\ UNCHANGED <<raised, modelVars, loopVars, dist, loss, grad, estVars, mcVars, evalVars, histVars>>

TrainLoss ==
  /\ pc = "train_loss"
  /\ loss' = [logits |-> logits, labels |-> labels]
  /\ pc' = "train_zero_grad"
  /\ UNCHANGED <<raised, modelVars, loopVars, logits, dist, grad, estVars, mcVars, evalVars, histVars>>

TrainZeroGrad ==
  /\ pc = "train_zero_grad"
  /\ grad' = NoLoss
  /\ pc' = "train_backward"
  /\ UNCHANGED <<raised, modelVars, loopVars, logits, dist, loss, estVars, mcVars, evalVars, histVars>>

TrainBackward ==
  /\ pc = "train_backward"
  /\ grad' = loss
  /\ pc' = "train_step"
  /\ UNCHANGED <<raised, modelVars, loopVars, logits, dist, loss, estVars, mcVars, evalVars, histVars>>

TrainStep ==
  /\ pc = "train_step"
  /\ \E w \in Weights : weights' = w
  /\ pc' = "train_for"
  /\ UNCHANGED <<raised, mode, loopVars, gradVars, estVars, mcVars, evalVars, histVars>>

\* ---- the evaluation cell: sgd_predictions, sgd_labels = eval(model, test_loader) ----
EvalCell ==
  /\ pc = "eval_cell"
  /\ caller' = "sgd"
  /\ pc' = "eval_begin"
  /\ UNCHANGED <<raised, modelVars, loopVars, gradVars, estVars, mcVars, evImages, evLogits, evTargets, histVars>>

\* ---- def eval(model, data) ----
EvalBegin ==
  /\ pc = "eval_begin"
  /\ mode' = "eval"
  /\ evLogits' = <<>>
  /\ evTargets' = <<>>
  /\ evImages' = 0
  /\ pc' = "eval_for"
  /\ UNCHANGED <<raised, weights, loopVars, gradVars, estVars, mcVars, caller, histVars>>

EvalFor ==
  /\ pc = "eval_for"
  /\ IF evImages < NumTestBatches
       THEN /\ evImages' = evImages + 1
            /\ pc' = "eval_forward"
       ELSE /\ pc' = "eval_return"
            /\ UNCHANGED evImages
  /\ UNCHANGED <<raised, modelVars, loopVars, gradVars, estVars, mcVars, caller, evLogits, evTargets, histVars>>

EvalForward ==
  /\ pc = "eval_forward"
  /\ evLogits' = Append(evLogits, Forward(weights, evImages))
  /\ pc' = "eval_targets"
  /\ UNCHANGED <<raised, modelVars, loopVars, gradVars, estVars, mcVars, caller, evImages, evTargets, histVars>>

EvalTargets ==
  /\ pc = "eval_targets"
  /\ evTargets' = Append(evTargets, evImages)
  /\ pc' = "eval_for"
  /\ UNCHANGED <<raised, modelVars, loopVars, gradVars, estVars, mcVars, caller, evImages, evLogits, histVars>>

\* return softmax(logits), targets: to the evaluation cell or to the Monte Carlo loop
EvalReturn ==
  /\ pc = "eval_return"
  /\ IF caller = "sgd"
       THEN /\ sgd_predictions' = Softmax(evLogits)
            /\ pc' = "diag_cell"
            /\ UNCHANGED <<predictions, labels, evalLog>>
       ELSE /\ predictions' = Softmax(evLogits)
            /\ labels' = "data"
            /\ evalLog' = evalLog (+) SetToBag({Softmax(evLogits)})
            /\ pc' = "mc_add"
            /\ UNCHANGED sgd_predictions
  /\ UNCHANGED <<raised, modelVars, epoch, images, sample, gradVars, estVars,
                 posterior_mean, mean_predictions, samples, evalVars,
                 diagDraws, sampledFrom, preLoopWeights>>

\* ---- the DIAG cell ----
DiagBegin ==
  /\ pc = "diag_cell"
  /\ mode' = "train"
  /\ diag' = NewEstimator
  /\ images' = 0
  /\ pc' = "diag_for"
  /\ UNCHANGED <<raised, weights, epoch, labels, sample, gradVars, kfac, efb, factors, lambdas, diags,
                 inf, inv_factors, mcVars, evalVars, histVars>>

DiagFor ==
  /\ pc = "diag_for"
  /\ IF images < NumTrainBatches
       THEN /\ images' = images + 1
            /\ labels' = "data"
            /\ pc' = "diag_forward"
       ELSE /\ pc' = "kfac_cell"
            /\ UNCHANGED <<images, labels>>
  /\ UNCHANGED <<raised, modelVars, epoch, sample, gradVars, estVars, mcVars, evalVars, histVars>>

DiagForward ==
  /\ pc = "diag_forward"
  /\ logits' = <<weights, images>>
  /\ pc' = "diag_dist"
  /\ UNCHANGED <<raised, modelVars, loopVars, dist, loss, grad, estVars, mcVars, evalVars, histVars>>

DiagDist ==
  /\ pc = "diag_dist"
  /\ dist' = logits
  /\ sample' = 0
  /\ pc' = "diag_sample_for"
  /\ UNCHANGED <<raised, modelVars, epoch, images, labels, logits, loss, grad, estVars, mcVars, evalVars, histVars>>

\* for sample in range(10)
DiagSampleFor ==
  /\ pc = "diag_sample_for"
  /\ IF sample < DiagSamples
       THEN /\ sample' = sample + 1
            /\ pc' = "diag_sample"
       ELSE /\ pc' = "diag_for"
            /\ UNCHANGED sample
  /\ UNCHANGED <<raised, modelVars, epoch, images, labels, gradVars, estVars, mcVars, evalVars, histVars>>

DiagSampleKeepsDataLabels ==
  /\ pc = "diag_sample"
  /\ diagDraws' = [diagDraws EXCEPT ![images] = @ + 1]
  /\ pc' = "diag_loss"
  /\ UNCHANGED <<raised, modelVars, loopVars, gradVars, estVars, mcVars, evalVars,
                 evalLog, sampledFrom, preLoopWeights>>

\* labels = dist.sample()
DiagSample ==
  /\ pc = "diag_sample"
  /\ labels' = "model"
  /\ diagDraws' = [diagDraws EXCEPT ![images] = @ + 1]
  /\ pc' = "diag_loss"
  /\ UNCHANGED <<raised, modelVars, epoch, images, sample, gradVars, estVars, mcVars, evalVars,
                 evalLog, sampledFrom, preLoopWeights>>

DiagLoss ==
  /\ pc = "diag_loss"
  /\ loss' = [logits |-> logits, labels |-> labels]
  /\ pc' = "diag_zero_grad"
  /\ UNCHANGED <<raised, modelVars, loopVars, logits, dist, grad, estVars, mcVars, evalVars, histVars>>

DiagZeroGrad ==
  /\ pc = "diag_zero_grad"
  /\ grad' = NoLoss
  /\ pc' = "diag_backward"
  /\ UNCHANGED <<raised, modelVars, loopVars, logits, dist, loss, estVars, mcVars, evalVars, histVars>>

DiagBackward ==
  /\ pc = "diag_backward"
  /\ grad' = loss
  /\ pc' = "diag_update"
  /\ UNCHANGED <<raised, modelVars, loopVars, logits, dist, loss, estVars, mcVars, evalVars, histVars>>

DiagUpdate ==
  /\ pc = "diag_update"
  /\ diag' = Update(diag, images, grad)
  /\ pc' = "diag_sample_for"
  /\ UNCHANGED <<raised, modelVars, loopVars, gradVars, kfac, efb, factors, lambdas, diags,
                 inf, inv_factors, mcVars, evalVars, histVars>>

\* ---- the KFAC cell ----
KfacBegin ==
  /\ pc = "kfac_cell"
  /\ kfac' = NewEstimator
  /\ images' = 0
  /\ pc' = "kfac_for"
  /\ UNCHANGED <<raised, modelVars, epoch, labels, sample, gradVars, diag, efb, factors, lambdas, diags,
                 inf, inv_factors, mcVars, evalVars, histVars>>

KfacForStopsEarly ==
  /\ pc = "kfac_for"
  /\ IF images + 1 < NumTrainBatches
       THEN /\ images' = images + 1
            /\ labels' = "data"
            /\ pc' = "kfac_forward"
       ELSE /\ pc' = "efb_cell"
            /\ UNCHANGED <<images, labels>>
  /\ UNCHANGED <<raised, modelVars, epoch, sample, gradVars, estVars, mcVars, evalVars, histVars>>

KfacFor ==
  /\ pc = "kfac_for"
  /\ IF images < NumTrainBatches
       THEN /\ images' = images + 1
            /\ labels' = "data"
            /\ pc' = "kfac_forward"
       ELSE /\ pc' = "efb_cell"
            /\ UNCHANGED <<images, labels>>
  /\ UNCHANGED <<raised, modelVars, epoch, sample, gradVars, estVars, mcVars, evalVars, histVars>>

KfacForward ==
  /\ pc = "kfac_forward"
  /\ logits' = <<weights, images>>
  /\ pc' = "kfac_dist"
  /\ UNCHANGED <<raised, modelVars, loopVars, dist, loss, grad, estVars, mcVars, evalVars, histVars>>

KfacDist ==
  /\ pc = "kfac_dist"
  /\ dist' = logits
  /\ pc' = "kfac_sample"
  /\ UNCHANGED <<raised, modelVars, loopVars, logits, loss, grad, estVars, mcVars, evalVars, histVars>>

KfacSample ==
  /\ pc = "kfac_sample"
  /\ labels' = "model"
  /\ pc' = "kfac_loss"
  /\ UNCHANGED <<raised, modelVars, epoch, images, sample, gradVars, estVars, mcVars, evalVars, histVars>>

KfacLoss ==
  /\ pc = "kfac_loss"
  /\ loss' = [logits |-> logits, labels |-> labels]
  /\ pc' = "kfac_zero_grad"
  /\ UNCHANGED <<raised, modelVars, loopVars, logits, dist, grad, estVars, mcVars, evalVars, histVars>>

KfacZeroGrad ==
  /\ pc = "kfac_zero_grad"
  /\ grad' = NoLoss
  /\ pc' = "kfac_backward"
  /\ UNCHANGED <<raised, modelVars, loopVars, logits, dist, loss, estVars, mcVars, evalVars, histVars>>

KfacBackward ==
  /\ pc = "kfac_backward"
  /\ grad' = loss
  /\ pc' = "kfac_update"
  /\ UNCHANGED <<raised, modelVars, loopVars, logits, dist, loss, estVars, mcVars, evalVars, histVars>>

KfacUpdate ==
  /\ pc = "kfac_update"
  /\ kfac' = Update(kfac, images, grad)
  /\ pc' = "kfac_for"
  /\ UNCHANGED <<raised, modelVars, loopVars, gradVars, diag, efb, factors, lambdas, diags,
                 inf, inv_factors, mcVars, evalVars, histVars>>

\* ---- the EFB cell ----
\* factors = list(kfac.state.values()); efb = fisher.EFB(model, factors)
EfbBegin ==
  /\ pc = "efb_cell"
  /\ factors' = kfac.upd
  /\ efb' = NewEstimator
  /\ images' = 0
  /\ pc' = "efb_for"
  /\ UNCHANGED <<raised, modelVars, epoch, labels, sample, gradVars, diag, kfac, lambdas, diags,
                 inf, inv_factors, mcVars, evalVars, histVars>>

EfbFor ==
  /\ pc = "efb_for"
  /\ IF images < NumTrainBatches
       THEN /\ images' = images + 1
            /\ labels' = "data"
            /\ pc' = "efb_forward"
       ELSE /\ pc' = "inf_cell"
            /\ UNCHANGED <<images, labels>>
  /\ UNCHANGED <<raised, modelVars, epoch, sample, gradVars, estVars, mcVars, evalVars, histVars>>

EfbForward ==
  /\ pc = "efb_forward"
  /\ logits' = <<weights, images>>
  /\ pc' = "efb_dist"
  /\ UNCHANGED <<raised, modelVars, loopVars, dist, loss, grad, estVars, mcVars, evalVars, histVars>>

EfbDist ==
  /\ pc = "efb_dist"
  /\ dist' = logits
  /\ sample' = 0
  /\ pc' = "efb_sample_for"
  /\ UNCHANGED <<raised, modelVars, epoch, images, labels, logits, loss, grad, estVars, mcVars, evalVars, histVars>>

EfbSampleFor ==
  /\ pc = "efb_sample_for"
  /\ IF sample < EfbSamples
       THEN /\ sample' = sample + 1
            /\ pc' = "efb_sample"
       ELSE /\ pc' = "efb_for"
            /\ UNCHANGED sample
  /\ UNCHANGED <<raised, modelVars, epoch, images, labels, gradVars, estVars, mcVars, evalVars, histVars>>

EfbSample ==
  /\ pc = "efb_sample"
  /\ labels' = "model"
  /\ pc' = "efb_loss"
  /\ UNCHANGED <<raised, modelVars, epoch, images, sample, gradVars, estVars, mcVars, evalVars, histVars>>

EfbLoss ==
  /\ pc = "efb_loss"
  /\ loss' = [logits |-> logits, labels |-> labels]
  /\ pc' = "efb_zero_grad"
  /\ UNCHANGED <<raised, modelVars, loopVars, logits, dist, grad, estVars, mcVars, evalVars, histVars>>

EfbZeroGrad ==
  /\ pc = "efb_zero_grad"
  /\ grad' = NoLoss
  /\ pc' = "efb_backward"
  /\ UNCHANGED <<raised, modelVars, loopVars, logits, dist, loss, estVars, mcVars, evalVars, histVars>>

EfbBackward ==
  /\ pc = "efb_backward"
  /\ grad' = loss
  /\ pc' = "efb_update"
  /\ UNCHANGED <<raised, modelVars, loopVars, logits, dist, loss, estVars, mcVars, evalVars, histVars>>

EfbUpdate ==
  /\ pc = "efb_update"
  /\ efb' = Update(efb, images, grad)
  /\ pc' = "efb_sample_for"
  /\ UNCHANGED <<raised, modelVars, loopVars, gradVars, diag, kfac, factors, lambdas, diags,
                 inf, inv_factors, mcVars, evalVars, histVars>>

\* ---- the INF cell ----
\* lambdas = ...; diags = ...; inf = fisher.INF(factors, lambdas, diags)
InfBegin ==
  /\ pc = "inf_cell"
  /\ lambdas' = efb.upd
  /\ diags' = diag.upd
  /\ inf' = [built |-> TRUE, accumulated |-> FALSE, rank |-> 0,
             factors |-> factors, lambdas |-> efb.upd, diags |-> diag.upd]
  /\ pc' = "inf_accumulate"
  /\ UNCHANGED <<raised, modelVars, loopVars, gradVars, diag, kfac, efb, factors, inv_factors,
                 mcVars, evalVars, histVars>>

\* inf.accumulate(rank=100)
InfAccumulate ==
  /\ pc = "inf_accumulate"
  /\ inf' = [inf EXCEPT !.accumulated = TRUE, !.rank = Rank]
  /\ pc' = "invert_cell"
  /\ UNCHANGED <<raised, modelVars, loopVars, gradVars, diag, kfac, efb, factors, lambdas, diags,
                 inv_factors, mcVars, evalVars, histVars>>

\* ---- the inversion cell: inv_factors = invert_factors(inf.state, norm, scale, estimator) ----
InvertFactors ==
  /\ pc = "invert_cell"
  /\ inv_factors' = [ready |-> TRUE, state |-> inf]
  /\ pc' = "mc_cell"
  /\ UNCHANGED <<raised, modelVars, loopVars, gradVars, diag, kfac, efb, factors, lambdas, diags,
                 inf, mcVars, evalVars, histVars>>

\* ---- the Monte Carlo cell ----
\* posterior_mean = copy.deepcopy(model.state_dict()); mean_predictions = 0; samples = ...
McBegin ==
  /\ pc = "mc_cell"
  /\ posterior_mean' = weights
  /\ preLoopWeights' = weights
  /\ mean_predictions' = ZeroMean
  /\ \E s \in 1..MaxSamples : samples' = s
  /\ sample' = 0
  /\ pc' = "mc_for"
  /\ UNCHANGED <<raised, modelVars, epoch, images, labels, gradVars, estVars, predictions,
                 sgd_predictions, evalVars, diagDraws, evalLog, sampledFrom>>

\* for sample in range(samples); after the loop, the division
McFor ==
  /\ pc = "mc_for"
  /\ IF sample < samples
       THEN /\ sample' = sample + 1
            /\ pc' = "mc_sample"
       ELSE /\ pc' = "mc_divide"
            /\ UNCHANGED sample
  /\ UNCHANGED <<raised, modelVars, epoch, images, labels, gradVars, estVars, mcVars, evalVars, histVars>>

\* sample_and_replace_weights(model, inv_factors, estimator)
McSample ==
  /\ pc = "mc_sample"
  /\ sampledFrom' = sampledFrom \cup {weights}
  /\ \E w \in Weights : weights' = w
  /\ pc' = "mc_eval"
  /\ UNCHANGED <<raised, mode, loopVars, gradVars, estVars, mcVars, evalVars,
                 diagDraws, evalLog, preLoopWeights>>

\* predictions, labels = eval(model, test_loader): the call
McEval ==
  /\ pc = "mc_eval"
  /\ caller' = "mc"
  /\ pc' = "eval_begin"
  /\ UNCHANGED <<raised, modelVars, loopVars, gradVars, estVars, mcVars, evImages, evLogits, evTargets, histVars>>

McAddOverwrites ==
  /\ pc = "mc_add"
  /\ mean_predictions' = [num |-> predictions, den |-> 1]
  /\ pc' = "mc_load"
  /\ UNCHANGED <<raised, modelVars, loopVars, gradVars, estVars, posterior_mean, samples, predictions,
                 sgd_predictions, evalVars, histVars>>

\* mean_predictions += predictions
McAdd ==
  /\ pc = "mc_add"
  /\ mean_predictions' = AddPredictions(mean_predictions, predictions)
  /\ pc' = "mc_load"
  /\ UNCHANGED <<raised, modelVars, loopVars, gradVars, estVars, posterior_mean, samples, predictions,
                 sgd_predictions, evalVars, histVars>>

McLoadSkipped ==
  /\ pc = "mc_load"
  /\ pc' = "mc_for"
  /\ UNCHANGED <<raised, modelVars, loopVars, gradVars, estVars, mcVars, evalVars, histVars>>

\* model.load_state_dict(posterior_mean)
McLoad ==
  /\ pc = "mc_load"
  /\ weights' = posterior_mean
  /\ pc' = "mc_for"
  /\ UNCHANGED <<raised, mode, loopVars, gradVars, estVars, mcVars, evalVars, histVars>>

\* mean_predictions /= samples
McDivide ==
  /\ pc = "mc_divide"
  /\ mean_predictions' = DivideBy(mean_predictions, samples)
  /\ pc' = "done"
  /\ UNCHANGED <<raised, modelVars, loopVars, gradVars, estVars, posterior_mean, samples, predictions,
                 sgd_predictions, evalVars, histVars>>

\* ---- failures ----
\* The statements that call into torch or the curvature library.
RaiseSites ==
  {"train_forward", "train_loss", "train_backward", "train_step",
   "eval_forward",
   "diag_forward", "diag_loss", "diag_backward", "diag_update",
   "kfac_forward", "kfac_loss", "kfac_backward", "kfac_update",
   "efb_forward", "efb_loss", "efb_backward", "efb_update",
   "inf_accumulate", "invert_cell",
   "mc_sample", "mc_load"}

RaiseCaught ==
  /\ pc \in RaiseSites
  /\ raised = NoErr
  /\ raised' = pc
  /\ UNCHANGED <<pc, modelVars, loopVars, gradVars, estVars, mcVars, evalVars, histVars>>

\* The call about to execute raises.  No cell has a try/except, and a with
\* torch.no_grad() block does not suppress: the exception leaves the cell and
\* the run stops there.
Raise ==
  /\ pc \in RaiseSites
  /\ raised = NoErr
  /\ raised' = pc
  /\ pc' = "aborted"
  /\ UNCHANGED <<modelVars, loopVars, gradVars, estVars, mcVars, evalVars, histVars>>

Next ==
  \/ TrainBegin \/ TrainFor \/ TrainForward \/ TrainLoss \/ TrainZeroGrad \/ TrainBackward \/ TrainStep
  \/ EvalCell \/ EvalBegin \/ EvalFor \/ EvalForward \/ EvalTargets \/ EvalReturn
  \/ DiagBegin \/ DiagFor \/ DiagForward \/ DiagDist \/ DiagSampleFor \/ DiagSample
  \/ DiagLoss \/ DiagZeroGrad \/ DiagBackward \/ DiagUpdate
  \/ KfacBegin \/ KfacFor \/ KfacForward \/ KfacDist \/ KfacSample
  \/ KfacLoss \/ KfacZeroGrad \/ KfacBackward \/ KfacUpdate
  \/ EfbBegin \/ EfbFor \/ EfbForward \/ EfbDist \/ EfbSampleFor \/ EfbSample
  \/ EfbLoss \/ EfbZeroGrad \/ EfbBackward \/ EfbUpdate
  \/ InfBegin \/ InfAccumulate \/ InvertFactors
  \/ McBegin \/ McFor \/ McSample \/ McEval \/ McAdd \/ McLoad \/ McDivide
  \/ Raise

Spec == Init /\ [][Next]_vars

TypeOK ==
  /\ weights \in Weights
  /\ mode \in {"train", "eval"}
  /\ labels \in {"none", "data", "model"}
  /\ raised \in {NoErr} \cup RaiseSites
  /\ samples \in 0..MaxSamples

\* ---- helpers of the properties ----
PassDone(est, n) == est.built /\ \A b \in TrainBatches : est.upd[b] = n

RECURSIVE SumOfBag(_, _, _)
\* the sum, over the copies of the tensors of set S in bag B, of their component i
SumOfBag(B, S, i) ==
  IF S = {} THEN 0
  ELSE LET p == CHOOSE q \in S : TRUE
       IN CopiesIn(p, B) * p[i] + SumOfBag(B, S \ {p}, i)

AccumulationLossSites ==
  {"diag_zero_grad", "diag_backward", "diag_update",
   "kfac_zero_grad", "kfac_backward", "kfac_update",
   "efb_zero_grad", "efb_backward", "efb_update"}

UpdateSites == {"diag_update", "kfac_update", "efb_update"}

\* C1: the stages respect their data dependencies.  EFB exists only once the
\* KFAC pass has updated on every training batch, and the factors it received
\* are that finished KFAC state; INF exists only once the DIAG, KFAC and EFB
\* passes have all finished, and was built from their states; inv_factors
\* exists only once inf.accumulate has returned; sample_and_replace_weights
\* has been called only once invert_factors has returned.
StagesRespectDependencies ==
  /\ efb.built => (PassDone(kfac, 1) /\ factors = kfac.upd)
  /\ inf.built => /\ PassDone(diag, DiagSamples)
                  /\ PassDone(kfac, 1)
                  /\ PassDone(efb, EfbSamples)
                  /\ inf.factors = kfac.upd /\ inf.lambdas = efb.upd /\ inf.diags = diag.upd
  /\ inf.accumulated => inf.built
  /\ inv_factors.ready => (inv_factors.state.accumulated /\ inf.accumulated)
  /\ sampledFrom # {} => inv_factors.ready

AllStagesRan ==
  /\ sampledFrom # {}
  /\ inv_factors.ready
  /\ inf.accumulated
  /\ efb.built

\* C2: when the Monte Carlo loop has finished, eval was called `samples` times
\* and mean_predictions is, element by element, the sum of the predictions those
\* calls returned divided by samples: each added once, one division at the end.
MeanIsAverageOfSamples ==
  pc = "done" =>
    /\ BagCardinality(evalLog) = samples
    /\ mean_predictions.den = samples
    /\ \A i \in TestBatches :
         mean_predictions.num[i] = SumOfBag(evalLog, BagToSet(evalLog), i)

AveragedDistinctSamples ==
  /\ pc = "done"
  /\ samples >= 3
  /\ Cardinality(BagToSet(evalLog)) >= 2

\* C3: in the DIAG, KFAC and EFB passes every gradient handed to an update came
\* from a loss on labels drawn from the model's own output distribution; the
\* labels train_loader yielded are in no loss that precedes an update call.
UpdatesUseModelLabels ==
  /\ diag.srcs \subseteq {"model"}
  /\ kfac.srcs \subseteq {"model"}
  /\ efb.srcs \subseteq {"model"}
  /\ pc \in AccumulationLossSites => (loss.labels = "model" /\ loss.logits = logits)
  /\ pc \in UpdateSites => grad.labels = "model"

AllPassesUpdated ==
  /\ diag.srcs = {"model"}
  /\ kfac.srcs = {"model"}
  /\ efb.srcs = {"model"}

\* C4: the DIAG pass is rank-1: for every training batch exactly one label
\* sample is drawn and diag.update is called exactly once.
DiagPassIsRankOne ==
  \A b \in TrainBatches :
    /\ diagDraws[b] <= 1
    /\ diag.upd[b] <= 1
    /\ diag.built /\ pc = "kfac_cell" => (diagDraws[b] = 1 /\ diag.upd[b] = 1)

\* C5: a raised exception is never caught or retried: once a library call has
\* raised, control has left the cell and no statement executes any more, the
\* remaining loop iterations included.
NoStatementAfterRaise ==
  /\ [](raised # NoErr => pc = "aborted")
  /\ [][raised # NoErr => UNCHANGED vars]_vars

RaisedInsideMcLoop ==
  /\ raised = "mc_load"
  /\ pc = "aborted"
  /\ sample < samples
  /\ mean_predictions.den = 1

\* C6: every sample_and_replace_weights call found the model at the saved
\* posterior_mean, and once the Monte Carlo loop has completed the model's
\* weights are those it held just before the loop.
SamplesPerturbTheMean ==
  /\ sampledFrom \subseteq {posterior_mean}
  /\ sampledFrom # {} => posterior_mean = preLoopWeights
  /\ pc \in {"mc_divide", "done"} => weights = preLoopWeights

SecondSampleFromMean ==
  /\ pc = "mc_eval"
  /\ sample >= 2
  /\ weights # posterior_mean
  /\ sampledFrom = {posterior_mean}

====
